---- MODULE Spec2Model ----
(***************************************************************************)
(* Request triage and automation-decision engine of the IT workflow        *)
(* chatbot: the agent triage router (src/src/agents/AgentTriageRouter.js), *)
(* the handler execution wrapper (BaseAgent.execute), the SLA sweep and    *)
(* the access auto-approval paths (agentService, ticketService, server).   *)
(*                                                                         *)
(* Conventions.                                                            *)
(*  - A text is a set of words (the words of the input joined by blanks).  *)
(*    String.includes(keyword) is modelled by Includes: some word of the   *)
(*    text, lower-cased, is the keyword. The vocabularies are chosen so    *)
(*    that no keyword of the source is a proper substring of a word and no *)
(*    multi-word keyword is formed across two words.                       *)
(*  - Confidences are integers in thousandths (0.7 is 700); the sums of    *)
(*    the source are exact in this unit.                                   *)
(*  - Time is counted in whole hours.                                      *)
(***************************************************************************)
EXTENDS Integers, Sequences, FiniteSets, TLC

VARIABLES
    config,          \* AgentTriageRouter.config
    pc,              \* position of the route call in flight
    input,           \* route(input, context): the text
    context,         \* route(input, context): the context
    routingDecision, \* what analyzeRouting returned
    invoked,         \* handler instances execute() was called on, in call order
    enriched,        \* the context invoked[i] was called with
    primaryResult,   \* executeMultiAgent: the primary agent's result
    pending,         \* executeMultiAgent: secondary indices not yet settled
    settled,         \* executeMultiAgent: index -> settled promise
    completionOrder, \* indices of secondaries in the order they completed
    outcomes,        \* index -> what run() of invoked[index] did
    hung,            \* indices of invoked handlers whose run() never settles
    response,        \* what route returned last
    routingHistory,  \* AgentTriageRouter.routingHistory
    calls,           \* number of route calls started
    tickets,         \* the tickets table: id -> row
    clock,           \* the current time, in hours
    lastOp,          \* the last operation that ran on the tickets table
    sweepRun,        \* monitorSLA runs since the last other operation or tick (at most 2)
    requests,        \* number of escalation requests served (endpoints and agent)
    lastEscalated,   \* result.escalated of the last monitorSLA run
    accessRequests,  \* the access_requests table, in insertion order
    autoApproval,    \* POST /api/access/auto-approve: the request object built last
    lastAccessOp,    \* the last operation that ran on the access_requests table
    handler,         \* calculateConfidence(agent, input, context): the agent
    scores,          \* what calculateConfidence returned, per context.priority
    message,         \* IntentDetector.detect(message): the message
    detected,        \* what detect returned
    inflight,        \* concurrent route calls awaiting their handlers
    completed,       \* the route calls that reached logRouting, in that order
    triggered,       \* SLA sweep triggers so far (timer expiries and requests)
    queue,           \* the event loop: sweep triggers whose callback has not run yet
    sweeping,        \* the monitorSLA call being executed, if any
    swept,           \* monitorSLA calls that have returned
    escalations,     \* per ticket, the number of times a sweep escalated it
    ticketText,      \* classifyTicket(text): the text
    classification,  \* what classifyTicket returned
    cacheMap,        \* SimpleCache.map: the entries in insertion order
    recency,         \* the keys of the cache, least recently used first
    hasOpenAI,       \* HAS_OPENAI && client: the external model is configured
    invocations,     \* the callModel invocations: cache key, position, answer
    apiCalls,        \* per cache key, the requests sent to the external model
    failedCalls,     \* per cache key, the requests the external model failed
    notified,        \* the tickets the SLA timer's callback notified last, in order
    users,           \* users table: the role of each registered e-mail address
    session,         \* req.session of the browser under study
    adminReply       \* the last response of an admin-only endpoint to that browser

routerVars == <<config, pc, input, context, routingDecision, invoked,
                enriched, primaryResult, pending, settled, completionOrder,
                outcomes, hung, response, routingHistory, calls>>

slaVars == <<tickets, clock, lastOp, sweepRun, requests, lastEscalated>>

accessVars == <<accessRequests, autoApproval, lastAccessOp>>

scoringVars == <<handler, scores, message, detected>>

concurrentVars == <<inflight, completed, triggered, queue, sweeping, swept, escalations>>

classifyVars == <<ticketText, classification>>

cacheVars == <<cacheMap, recency>>

\* the state of the components that are studied on their own
modelVars == <<hasOpenAI, invocations, apiCalls, failedCalls>>

notifyVars == <<notified>>

authVars == <<users, session, adminReply>>

auxVars == <<classifyVars, cacheVars, modelVars, notifyVars, authVars>>

vars == <<routerVars, slaVars, accessVars, scoringVars, concurrentVars, auxVars>>

\* the state outside the router, the tickets table, the access_requests table
nonRouterVars == <<slaVars, accessVars, scoringVars, concurrentVars, auxVars>>
nonSlaVars == <<routerVars, accessVars, scoringVars, concurrentVars, auxVars>>
nonAccessVars == <<routerVars, slaVars, scoringVars, concurrentVars, auxVars>>

\* the state of the router, the tables, the scored calls and the callbacks
coreVars == <<routerVars, slaVars, accessVars, scoringVars, concurrentVars>>

nonClassifyVars == <<coreVars, cacheVars, modelVars, notifyVars, authVars>>
nonCacheVars == <<coreVars, classifyVars, modelVars, notifyVars, authVars>>
nonModelVars == <<coreVars, classifyVars, notifyVars, authVars>>
nonAuthVars == <<coreVars, classifyVars, cacheVars, modelVars, notifyVars>>

None == "none"

----------------------------------------------------------------------------
(* Bounds of the model *)

\* maxAgents is drawn from 1..MaxAgentsLimit
MaxAgentsLimit == 3
\* route calls of one behaviour
MaxCalls == 2
\* rows of the tickets table
MaxTickets == 2
\* context.currentEscalationLevel is drawn from 0..MaxCurrentLevel
MaxCurrentLevel == 1
\* the clock stops here
MaxClock == 76
\* escalation requests (endpoint calls and agent runs) of one behaviour
MaxEscalationRequests == 2
\* rows of the access_requests table
MaxRequests == 2
\* words of a resource name
MaxResourceWords == 2
\* longest message handed to the intent detector, in words
MaxWords == 4
\* words of a message where detect runs next to calculateConfidence
ShortWords == 1
\* concurrent route calls started beyond those that fill the routing log
MaxLogCalls == 3
\* triggers of the SLA sweep of one behaviour
MaxTriggers == 3
\* longest text handed to classifyTicket, in words
MaxTicketWords == 3
\* maxEntries of the SimpleCache under study
MaxEntries == 3
\* callModel invocations of one behaviour
MaxInvocations == 3

----------------------------------------------------------------------------
(* Texts *)

\* lower-casing of the words the model uses (String.prototype.toLowerCase)
ToLower(w) ==
    CASE w = "URGENT" -> "urgent"
      [] w = "Help" -> "help"
      [] w = "Slack" -> "slack"
      [] w = "SLACK" -> "slack"
      [] w = "Figma" -> "figma"
      [] w = "Zoom" -> "zoom"
      [] w = "AWS" -> "aws"
      [] w = "Admin" -> "admin"
      [] w = "Routine" -> "routine"
      [] w = "Hello" -> "hello"
      [] w = "Laptop" -> "laptop"
      [] OTHER -> w

LowerText(text) == {ToLower(w) : w \in text}

\* text.includes(keyword), text already lower-cased
Includes(lowered, keyword) == keyword \in lowered

\* words of the texts handed to the router
Vocabulary == {"URGENT", "slow", "Help", "error", "access", "setup"}

Texts == SUBSET Vocabulary

----------------------------------------------------------------------------
(* Handlers *)

\* this.agents, in registration order
Agents == <<"EscalationAgent", "PerformanceMonitoringAgent", "KnowledgeBaseAgent",
            "ITSupportAgent", "AccessManagementAgent", "OnboardingAgent">>

\* this.fallbackAgent: a second instance of ITSupportAgent
fallbackAgent == "fallbackAgent"

AgentName(a) == IF a = fallbackAgent THEN "ITSupportAgent" ELSE a

EscalationCanHandle(text, ctx) ==
    LET escalationKeywords == {"urgent", "critical", "emergency", "down", "outage",
            "escalate", "production", "security breach", "data loss", "system failure",
            "major issue", "high priority", "immediate attention"}
        hasSeverityContext == ctx.severity = "high" \/ ctx.priority = "high"
        \* timeElapsed 0 stands for an absent (falsy) value
        hasTimeContext == ctx.timeElapsed # 0 /\ ctx.timeElapsed > 240
    IN  (\E k \in escalationKeywords : Includes(LowerText(text), k))
        \/ hasSeverityContext \/ hasTimeContext

ITSupportCanHandle(text, ctx) ==
    LET supportKeywords == {"error", "bug", "crash", "not working", "broken", "failed",
            "issue", "computer", "laptop", "software", "hardware", "network", "wifi",
            "login", "password", "access", "printer", "email", "vpn"}
    IN  \E k \in supportKeywords : Includes(LowerText(text), k)

AccessCanHandle(text, ctx) ==
    LET accessKeywords == {"access", "permission", "need access to", "can i get",
            "authorize", "login", "account", "credentials", "system access", "resource"}
    IN  \E k \in accessKeywords : Includes(LowerText(text), k)

PerformanceCanHandle(text, ctx) ==
    LET performanceKeywords == {"performance", "slow", "lag", "bottleneck", "optimization",
            "monitor", "cpu", "memory", "disk", "network", "latency", "throughput",
            "response time", "load time", "server", "infrastructure", "scaling",
            "capacity", "utilization", "metrics", "dashboard", "alert", "monitoring",
            "uptime", "downtime", "availability"}
    IN  \E k \in performanceKeywords : Includes(LowerText(text), k)

\* the words of the model hold no "?" and do not begin with what, how or where,
\* so of the disjuncts of this canHandle the keyword test is the one that decides
KnowledgeBaseCanHandle(text, ctx) ==
    LET knowledgeKeywords == {"how to", "procedure", "policy", "documentation", "guide",
            "manual", "instructions", "setup", "configure", "install", "troubleshoot",
            "best practice", "standard", "protocol", "process", "workflow", "contact",
            "phone number", "email", "help", "support", "knowledge", "information",
            "wiki", "faq", "tutorial"}
    IN  \/ \E k \in knowledgeKeywords : Includes(LowerText(text), k)
        \/ "?" \in text
        \/ \E w \in {"what", "how", "where"} : Includes(LowerText(text), w)

OnboardingCanHandle(text, ctx) ==
    LET onboardingKeywords == {"onboarding", "new employee", "new hire", "starting",
            "first day", "checklist", "orientation", "setup", "welcome", "join the team",
            "employee setup", "workspace setup"}
    IN  \E k \in onboardingKeywords : Includes(LowerText(text), k)

canHandle(agent, text, ctx) ==
    CASE agent = "EscalationAgent" -> EscalationCanHandle(text, ctx)
      [] agent = "PerformanceMonitoringAgent" -> PerformanceCanHandle(text, ctx)
      [] agent = "KnowledgeBaseAgent" -> KnowledgeBaseCanHandle(text, ctx)
      [] agent = "ITSupportAgent" -> ITSupportCanHandle(text, ctx)
      [] agent = "AccessManagementAgent" -> AccessCanHandle(text, ctx)
      [] agent = "OnboardingAgent" -> OnboardingCanHandle(text, ctx)
      [] OTHER -> FALSE

agentKeywords(name) ==
    CASE name = "EscalationAgent" ->
            {"urgent", "critical", "emergency", "escalate", "production", "outage"}
      [] name = "PerformanceMonitoringAgent" ->
            {"performance", "slow", "monitor", "metrics", "cpu", "memory", "optimization"}
      [] name = "KnowledgeBaseAgent" ->
            {"how to", "procedure", "policy", "documentation", "guide", "help", "information"}
      [] name = "ITSupportAgent" ->
            {"error", "bug", "not working", "computer", "software", "hardware", "technical"}
      [] name = "AccessManagementAgent" ->
            {"access", "permission", "login", "account", "authorize", "security"}
      [] name = "OnboardingAgent" ->
            {"onboarding", "new employee", "setup", "welcome", "checklist", "hire"}
      [] OTHER -> {}

countKeywordMatches(agent, text) ==
    Cardinality({k \in agentKeywords(AgentName(agent)) : Includes(LowerText(text), k)})

\* successRates[agentName] || 0.80, in thousandths
getHistoricalSuccess(name) ==
    CASE name = "ITSupportAgent" -> 850
      [] name = "AccessManagementAgent" -> 900
      [] name = "OnboardingAgent" -> 880
      [] name = "EscalationAgent" -> 920
      [] OTHER -> 800

Uncapped(a, b) == a

Min(a, b) == IF a <= b THEN a ELSE b

calculateConfidenceNoBonus(agent, text, ctx) ==
    LET base == 500
        kw == countKeywordMatches(agent, text) * 100
        hist == (getHistoricalSuccess(AgentName(agent)) * 200) \div 1000
    IN  Min(base + kw + hist, 1000)

calculateConfidence(agent, text, ctx) ==
    LET base == 500
        kw == countKeywordMatches(agent, text) * 100
        esc == IF ctx.priority = "high" /\ AgentName(agent) = "EscalationAgent" THEN 300 ELSE 0
        onb == IF ctx.userRole = "new_hire" /\ AgentName(agent) = "OnboardingAgent" THEN 400 ELSE 0
        hist == (getHistoricalSuccess(AgentName(agent)) * 200) \div 1000
    IN  Min(base + kw + esc + onb + hist, 1000)

----------------------------------------------------------------------------
(* analyzeRouting *)

RECURSIVE candidatesOf(_, _, _, _)
\* the loop over this.agents: agents[i..] that are capable and reach the threshold
candidatesOf(i, text, ctx, cfg) ==
    IF i > Len(Agents) THEN <<>>
    ELSE LET agent == Agents[i]
             confidence == calculateConfidence(agent, text, ctx)
             rest == candidatesOf(i + 1, text, ctx, cfg)
         IN  IF canHandle(agent, text, ctx) /\ confidence >= cfg.confidenceThreshold
             THEN <<[agent |-> agent, confidence |-> confidence]>> \o rest
             ELSE rest

\* where a later element x goes in an already sorted prefix: Array.prototype.sort
\* is stable, so x stays behind every element the comparator calls equal
InsertTiesReversed(sorted, x) ==
    LET before == {j \in 1..Len(sorted) : sorted[j].confidence > x.confidence}
        k == Cardinality(before)
    IN  SubSeq(sorted, 1, k) \o <<x>> \o SubSeq(sorted, k + 1, Len(sorted))

InsertByConfidence(sorted, x) ==
    LET before == {j \in 1..Len(sorted) : sorted[j].confidence >= x.confidence}
        k == Cardinality(before)
    IN  SubSeq(sorted, 1, k) \o <<x>> \o SubSeq(sorted, k + 1, Len(sorted))

RECURSIVE sortByConfidence(_)
\* candidates.sort((a, b) => b.confidence - a.confidence)
sortByConfidence(cands) ==
    IF cands = <<>> THEN <<>>
    ELSE InsertByConfidence(sortByConfidence(SubSeq(cands, 1, Len(cands) - 1)),
                            cands[Len(cands)])

SliceUnlimited(s, n) == s

\* candidates.slice(0, n)
Slice(s, n) == SubSeq(s, 1, Min(n, Len(s)))

analyzeRouting(text, ctx, cfg) ==
    LET candidates == sortByConfidence(candidatesOf(1, text, ctx, cfg))
        top == Slice(candidates, cfg.maxAgents)
        selectedAgents == [i \in 1..Len(top) |-> top[i].agent]
    IN  [agents |-> IF Len(selectedAgents) = 0 THEN <<fallbackAgent>> ELSE selectedAgents,
         candidates |-> candidates,
         confidence |-> IF Len(candidates) > 0 /\ candidates[1].confidence # 0
                        THEN candidates[1].confidence ELSE 500]

----------------------------------------------------------------------------
(* Inputs of the router *)

Thresholds == {600, 700, 1000}

Configs == [enableMultiAgent : BOOLEAN,
            confidenceThreshold : Thresholds,
            maxAgents : 1..MaxAgentsLimit]

Contexts == [priority : {"high", "medium"},
             userRole : {"new_hire", "employee"},
             severity : {None},
             timeElapsed : {0, 300}]

NoContext == [priority |-> None, userRole |-> None, severity |-> None, timeElapsed |-> 0]
NoDecision == [agents |-> <<>>, candidates |-> <<>>, confidence |-> 0]
NoResult == [success |-> FALSE, agent |-> None, error |-> None]

----------------------------------------------------------------------------
(* BaseAgent.execute and the route call *)

Outcomes == {"returns", "throws"}

\* execute without its try/catch: the error of run() rejects the promise
executeUncaught(agent, outcome) ==
    IF outcome = "returns"
    THEN [state |-> "fulfilled",
          value |-> [success |-> TRUE, agent |-> AgentName(agent), error |-> None]]
    ELSE [state |-> "rejected", value |-> NoResult]

\* BaseAgent.execute: the promise it returns once run() has returned or thrown
execute(agent, outcome) ==
    IF outcome = "returns"
    THEN [state |-> "fulfilled",
          value |-> [success |-> TRUE, agent |-> AgentName(agent), error |-> None]]
    ELSE [state |-> "fulfilled",
          value |-> [success |-> FALSE, agent |-> AgentName(agent), error |-> "Error"]]

\* logRouting: push, then shift while longer than the capacity
HistoryCapacity == 100

logRoutingDropNewest(history, entry) ==
    LET pushed == Append(history, entry)
    IN  IF Len(pushed) > HistoryCapacity THEN SubSeq(pushed, 1, HistoryCapacity) ELSE pushed

logRouting(history, entry) ==
    LET pushed == Append(history, entry)
    IN  IF Len(pushed) > HistoryCapacity THEN Tail(pushed) ELSE pushed

\* the object route returns from its try block
Returned(decision, results) ==
    [success |-> TRUE, routing |-> decision.agents, results |-> results,
     agentsUsed |-> [i \in 1..Len(results) |-> results[i].agent]]

\* the object route returns from its catch block
Failed(decision) ==
    [success |-> FALSE, routing |-> decision.agents, results |-> <<>>, agentsUsed |-> <<>>]

NoResponse == [success |-> FALSE, routing |-> <<>>, results |-> <<>>, agentsUsed |-> <<>>]

\* the tail of route's try block: log the decision and return
Finish(results) ==
    /\ routingHistory' = logRouting(routingHistory,
            [input |-> input, agents |-> routingDecision.agents, results |-> results])
    /\ response' = Returned(routingDecision, results)
    /\ pc' = "idle"

\* route's catch block
Abort ==
    /\ response' = Failed(routingDecision)
    /\ pc' = "idle"
    /\ UNCHANGED routingHistory

\* which results executeMultiAgent returns once every secondary has settled:
\* Promise.all keeps the order of the promises it was given
GatherByCompletion(primary, done, order) ==
    <<primary>> \o [k \in 1..Len(order) |-> done[order[k]].value]

Gather(primary, done, order) ==
    <<primary>> \o [k \in 1..Len(order) |-> done[k + 1].value]

\* the context argument as route received it: no primaryAgentResult, no flag
plainContext(ctx) ==
    [context |-> ctx, primaryAgentResult |-> NoResult, multiAgentExecution |-> FALSE]

enrichedContextDropped(ctx, primary) == plainContext(ctx)

\* {...context, primaryAgentResult: primaryResult, multiAgentExecution: true}
enrichedContext(ctx, primary) ==
    [context |-> ctx, primaryAgentResult |-> primary, multiAgentExecution |-> TRUE]

\* route(input, context) up to its first await of a handler
Route(texts, contexts) ==
    /\ UNCHANGED nonRouterVars
    /\ pc = "idle"
    /\ calls < MaxCalls
    /\ \E text \in texts, ctx \in contexts :
        LET decision == analyzeRouting(text, ctx, config)
            n == Len(decision.agents)
        IN  /\ input' = text
            /\ context' = ctx
            /\ routingDecision' = decision
            /\ IF n = 1
               THEN pc' = "single" /\ invoked' = <<decision.agents[1]>>
               ELSE IF n > 1 /\ config.enableMultiAgent
               THEN pc' = "primary" /\ invoked' = <<decision.agents[1]>>
               ELSE pc' = "fallback" /\ invoked' = <<fallbackAgent>>
    /\ enriched' = <<plainContext(context')>>
    /\ calls' = calls + 1
    /\ primaryResult' = NoResult
    /\ pending' = {}
    /\ settled' = <<>>
    /\ completionOrder' = <<>>
    /\ outcomes' = <<>>
    /\ hung' = {}
    /\ response' = NoResponse
    /\ UNCHANGED <<config, routingHistory>>

\* the handler awaited alone (single agent or fallback) settles
SingleSettles ==
    /\ UNCHANGED nonRouterVars
    /\ pc \in {"single", "fallback"}
    /\ 1 \notin hung
    /\ \E o \in Outcomes :
        LET p == execute(invoked[1], o)
        IN  /\ outcomes' = <<o>>
            /\ IF p.state = "fulfilled" THEN Finish(<<p.value>>) ELSE Abort
    /\ UNCHANGED <<config, input, context, routingDecision, invoked, enriched,
                   primaryResult, pending, settled, completionOrder, hung, calls>>

\* executeMultiAgent: the primary settles; the secondaries are started together
PrimarySettles ==
    /\ UNCHANGED nonRouterVars
    /\ pc = "primary"
    /\ 1 \notin hung
    /\ \E o \in Outcomes :
        LET p == execute(invoked[1], o)
            agents == routingDecision.agents
        IN  /\ outcomes' = <<o>>
            /\ IF p.state = "fulfilled"
               THEN /\ primaryResult' = p.value
                    /\ invoked' = agents
                    /\ enriched' = [i \in 1..Len(agents) |->
                                        IF i = 1 THEN enriched[1]
                                        ELSE enrichedContext(context, p.value)]
                    /\ pending' = 2..Len(agents)
                    /\ pc' = "secondary"
                    /\ UNCHANGED <<response, routingHistory>>
               ELSE /\ Abort
                    /\ UNCHANGED <<primaryResult, invoked, enriched, pending>>
    /\ UNCHANGED <<config, input, context, routingDecision, settled,
                   completionOrder, hung, calls>>

\* one secondary settles; the last one resolves Promise.all and route returns
SecondarySettles ==
    /\ UNCHANGED nonRouterVars
    /\ pc = "secondary"
    /\ \E i \in pending \ hung, o \in Outcomes :
        LET p == execute(invoked[i], o)
            done == [k \in (DOMAIN settled) \cup {i} |-> IF k = i THEN p ELSE settled[k]]
            order == Append(completionOrder, i)
        IN  /\ settled' = done
            /\ outcomes' = [k \in (DOMAIN outcomes) \cup {i} |->
                                IF k = i THEN o ELSE outcomes[k]]
            /\ completionOrder' = order
            /\ pending' = pending \ {i}
            /\ IF p.state = "rejected"
               THEN Abort
               ELSE IF pending = {i}
               THEN Finish(Gather(primaryResult, done, order))
               ELSE UNCHANGED <<response, routingHistory, pc>>
    /\ UNCHANGED <<config, input, context, routingDecision, invoked, enriched,
                   primaryResult, hung, calls>>

\* the handlers route is waiting for
Awaited ==
    CASE pc \in {"single", "fallback", "primary"} -> {1}
      [] pc = "secondary" -> pending
      [] OTHER -> {}

\* the promise of an awaited handler's run() never settles (the chain's call to
\* the model never answers); nothing in execute, executeMultiAgent or route
\* bounds the wait
HandlerHangs ==
    /\ UNCHANGED nonRouterVars
    /\ \E i \in Awaited \ hung : hung' = hung \cup {i}
    /\ UNCHANGED <<config, pc, input, context, routingDecision, invoked, enriched,
                   primaryResult, pending, settled, completionOrder, outcomes,
                   response, routingHistory, calls>>

----------------------------------------------------------------------------
(* Tickets: ticketService and agentService.monitorSLA *)

\* SQL NULL in a DATETIME column
NULL == -1

\* a created_at that Date cannot parse: new Date(t.created_at).getTime() is NaN
InvalidDate == -2

\* new Date(null).getTime() is 0, the epoch: decades before the tickets of the
\* model are created, in hours on the model's clock
EpochHours == -400000

\* new Date(t.created_at).getTime(), for a created_at that is not InvalidDate
getTime(created_at) == IF created_at = NULL THEN EpochHours ELSE created_at

TicketIds == 1..MaxTickets

\* instants the clock takes: tickets are created at 0, so their age meets the
\* thresholds 4 and 24 exactly and exceeds each threshold of the sources
\* (4, 24, 48, 72)
Instants == {t \in {4, 8, 24, 28, 52, 76, 100} : t <= MaxClock}

\* this.config.slaHours[(t.priority || 'medium').toLowerCase()] || 24
slaHours(priority) ==
    CASE priority = "high" -> 4
      [] priority = "medium" -> 24
      [] priority = "low" -> 48
      [] OTHER -> 24

\* getSLAThreshold of the server: thresholds[priority] || 48
getSLAThreshold(priority) ==
    CASE priority = "urgent" -> 4
      [] priority = "high" -> 24
      [] priority = "medium" -> 48
      [] priority = "low" -> 72
      [] OTHER -> 48

\* TicketService has two methods named getAllTickets; in a class body the later
\* one replaces the earlier, so the filter argument is ignored
getAllTickets(rows, filters) == DOMAIN rows

ViolatesUnguarded(t, now) ==
    /\ t.created_at # InvalidDate
    /\ now - getTime(t.created_at) > slaHours(t.priority)

\* the condition under which monitorSLA escalates row t at time now; every
\* comparison with NaN is false
Violates(t, now) ==
    /\ t.created_at # InvalidDate
    /\ now - getTime(t.created_at) > slaHours(t.priority)
    /\ (t.escalated_at = NULL \/ t.escalation_level = 0)

\* the fields monitorSLA hands to updateTicket
EscalatedTwice(t, now) ==
    [t EXCEPT !.escalation_level = t.escalation_level + 2,
              !.escalated_at = now,
              !.priority = IF t.priority = "medium" THEN "high" ELSE t.priority,
              !.status = "open"]

Escalated(t, now) ==
    [t EXCEPT !.escalation_level = t.escalation_level + 1,
              !.escalated_at = now,
              !.priority = IF t.priority = "medium" THEN "high" ELSE t.priority,
              !.status = "open"]

\* the table after agentService.monitorSLA() at time now
monitorSLA(rows, now) ==
    LET all == getAllTickets(rows, "open")
    IN  [id \in DOMAIN rows |->
            IF id \in all /\ Violates(rows[id], now)
            THEN Escalated(rows[id], now) ELSE rows[id]]

\* result.escalated
monitorSLACount(rows, now) ==
    Cardinality({id \in getAllTickets(rows, "open") : Violates(rows[id], now)})

\* TicketService.escalateTicket: the UPDATE statement
escalateTicket(t, now) ==
    [t EXCEPT !.escalated_at = now,
              !.priority = "urgent",
              !.escalation_level = t.escalation_level + 1]

\* EscalationAgent.priorityLevelToString
priorityLevelToString(level) ==
    CASE level = 0 -> "critical"
      [] level = 1 -> "high"
      [] level = 2 -> "medium"
      [] level = 3 -> "low"
      [] OTHER -> "medium"

\* EscalationAgent.run, the updateTicket call: the level written comes from the
\* caller's context (0 when context.currentEscalationLevel is absent), not the row
escalationAgentUpdate(t, now, priorityLevel, currentEscalationLevel) ==
    [t EXCEPT !.priority = priorityLevelToString(priorityLevel),
              !.escalated_at = now,
              !.escalation_level = currentEscalationLevel + 1,
              !.status = "escalated"]

InitialTickets ==
    [status : {"open", "resolved"},
     priority : {"low", "medium", "high", "urgent"},
     created_at : {0},
     escalated_at : {NULL},
     escalation_level : {0}]

Record(op) ==
    /\ lastOp' = op
    /\ sweepRun' = IF op = "monitorSLA" THEN Min(sweepRun + 1, 2) ELSE 0
    /\ requests' = IF op \in {"tick", "monitorSLA"} THEN requests ELSE requests + 1

\* time passes
Tick ==
    /\ UNCHANGED nonSlaVars
    /\ \E t \in Instants : t > clock /\ clock' = t
    /\ Record("tick")
    /\ UNCHANGED <<tickets, lastEscalated>>

\* the periodic SLA timer, or POST /api/tickets/escalate/run
MonitorSLA ==
    /\ UNCHANGED nonSlaVars
    /\ tickets' = monitorSLA(tickets, clock)
    /\ lastEscalated' = monitorSLACount(tickets, clock)
    /\ Record("monitorSLA")
    /\ UNCHANGED clock

\* POST /api/tickets/:id/escalate
EscalateEndpoint ==
    /\ requests < MaxEscalationRequests
    /\ UNCHANGED nonSlaVars
    /\ \E id \in TicketIds :
        /\ tickets' = [tickets EXCEPT ![id] = escalateTicket(tickets[id], clock)]
    /\ Record("escalateTicket")
    /\ UNCHANGED <<clock, lastEscalated>>

\* GET /api/sla/monitor: every ticket that is not resolved and is past the
\* server's threshold is escalated; ticket.escalated is no column of the table,
\* so the test !ticket.escalated is always true
SlaMonitorEndpoint ==
    /\ requests < MaxEscalationRequests
    /\ UNCHANGED nonSlaVars
    /\ tickets' = [id \in TicketIds |->
            IF /\ tickets[id].status # "resolved"
               /\ clock - tickets[id].created_at > getSLAThreshold(tickets[id].priority)
            THEN escalateTicket(tickets[id], clock) ELSE tickets[id]]
    /\ Record("slaMonitor")
    /\ UNCHANGED <<clock, lastEscalated>>

\* EscalationAgent.run with context.ticketId set
EscalationAgentRun ==
    /\ requests < MaxEscalationRequests
    /\ UNCHANGED nonSlaVars
    /\ \E id \in TicketIds, priorityLevel \in 0..3, current \in 0..MaxCurrentLevel :
        tickets' = [tickets EXCEPT ![id] =
                        escalationAgentUpdate(tickets[id], clock, priorityLevel, current)]
    /\ Record("escalationAgent")
    /\ UNCHANGED <<clock, lastEscalated>>

----------------------------------------------------------------------------
(* Access requests: accessRequestService, agentService.scanAccessRequests,  *)
(* POST /api/access/auto-approve and AccessManagementAgent.run              *)

ResourceWords == {"Slack", "slack", "AWS"}

\* resource names: one or more words (leading and trailing blanks, which
\* scanAccessRequests trims, are not part of a name here)
Resources == {r \in SUBSET ResourceWords : r # {} /\ Cardinality(r) <= MaxResourceWords}

JustificationWords == {"Routine", "need"}

Justifications == SUBSET JustificationWords

\* this.config.lowRiskResources of agentService
lowRiskResources == {{"Slack"}, {"Confluence"}, {"Figma"}, {"Notion"}, {"Jira-Viewer"}}

\* /routine|standard|daily|team|collaboration/.test(justification.toLowerCase())
safeWords(justification) ==
    \E m \in {"routine", "standard", "daily", "team", "collaboration"} :
        Includes(LowerText(justification), m)

\* the two lists of assessAccessRisk
lowRiskList == {"figma", "canva", "notion", "slack", "zoom", "teams", "office365",
                "google workspace", "confluence", "jira", "trello", "asana", "monday.com"}

highRiskList == {"aws", "azure", "gcp", "production", "database", "admin", "root",
                 "billing", "payroll", "financial"}

\* assessAccessRisk of the server: the low-risk list is consulted first
assessAccessRisk(resource) ==
    LET resourceLower == LowerText(resource)
    IN  IF \E r \in lowRiskList : Includes(resourceLower, r) THEN "low"
        ELSE IF \E r \in highRiskList : Includes(resourceLower, r) THEN "high"
        ELSE "medium"

\* AccessManagementAgent.extractRiskLevel, on the phrases of the model's analysis
extractRiskLevel(analysis) ==
    IF "high risk" \in analysis \/ "high-risk" \in analysis THEN "high"
    ELSE IF "low risk" \in analysis \/ "low-risk" \in analysis THEN "low"
    ELSE "medium"

Analyses == SUBSET {"high risk", "low risk"}

\* accessRequestService.createAccessRequest: the row inserted
createAccessRequest(resource, justification) ==
    [resource_name |-> resource, justification |-> justification,
     status |-> "pending", approver |-> None]

\* the row scanAccessRequests leaves for a pending row
scanRow(req) ==
    LET lowRisk == req.resource_name \in lowRiskResources
    IN  IF req.status = "pending" /\ lowRisk /\ safeWords(req.justification)
        THEN [req EXCEPT !.status = "approved", !.approver = "auto-agent"]
        ELSE req

NoAutoApproval == [resource |-> {}, status |-> None, auto_approved |-> FALSE,
                   risk_level |-> None, http |-> 0]

\* POST /api/access-requests (and the chat routes that create a request)
CreateAccessRequest ==
    /\ UNCHANGED nonAccessVars
    /\ Len(accessRequests) < MaxRequests
    /\ \E resource \in Resources, justification \in Justifications :
        accessRequests' = Append(accessRequests, createAccessRequest(resource, justification))
    /\ lastAccessOp' = "create"
    /\ UNCHANGED autoApproval

\* the periodic access scan, or POST /api/access-requests/approve/pending
ScanAccessRequests ==
    /\ UNCHANGED nonAccessVars
    /\ accessRequests' = [i \in 1..Len(accessRequests) |-> scanRow(accessRequests[i])]
    /\ lastAccessOp' = "scan"
    /\ UNCHANGED autoApproval

\* POST /api/access/auto-approve: the request object is built with its status
\* decided by assessAccessRisk; accessRequestService has no createRequest
\* method, so the call that would store it throws and the answer is 500
AutoApproveEndpoint ==
    /\ UNCHANGED nonAccessVars
    /\ \E resource \in Resources :
        LET riskLevel == assessAccessRisk(resource)
            isLowRisk == riskLevel = "low"
        IN  autoApproval' = [resource |-> resource,
                             status |-> IF isLowRisk THEN "approved" ELSE "pending",
                             auto_approved |-> isLowRisk,
                             risk_level |-> riskLevel,
                             http |-> 500]
    /\ lastAccessOp' = "autoApprove"
    /\ UNCHANGED accessRequests

\* AccessManagementAgent.run with context.userId set: the request is created and,
\* when the model's analysis starts with "APPROVE:" and reads low risk, approved.
\* `words` are the words of the justification stored (the input followed by the
\* analysis), `resource` is what extractResource takes from the input
AccessAgentRun ==
    /\ UNCHANGED nonAccessVars
    /\ Len(accessRequests) < MaxRequests
    /\ \E resource \in Resources, words \in Justifications,
          analysis \in Analyses, autoApprove \in BOOLEAN :
        LET riskLevel == extractRiskLevel(analysis)
            row == createAccessRequest(resource, words)
        IN  accessRequests' = Append(accessRequests,
                IF autoApprove /\ riskLevel = "low"
                THEN [row EXCEPT !.status = "approved", !.approver = "access-agent-auto"]
                ELSE row)
    /\ lastAccessOp' = "accessAgent"
    /\ UNCHANGED autoApproval

----------------------------------------------------------------------------
(* IntentDetector.detect *)

\* A message is a sequence of words, joined by single blanks. A keyword or a
\* literal of a pattern is a phrase: a sequence of lower-case words. The words
\* of the model are chosen so that the only word that holds another word of a
\* keyword or pattern inside it is "show", which ends with "how".

MessageWords == {"Hello", "need", "access", "to", "show", "tickets", "fix", "error", "status"}

Messages == UNION {[1..n -> MessageWords] : n \in 0..MaxWords}

EndsWithWord(word, part) ==
    \/ word = part
    \/ word = "show" /\ part = "how"
    \/ word = "plan" /\ part = "lan"

StartsWithWord(word, part) == word = part

ContainsWord(word, part) == EndsWithWord(word, part) \/ StartsWithWord(word, part)

\* the lower-cased word holds `part`, from its start unless openLeft and to
\* its end unless openRight
MatchWord(word, part, openLeft, openRight) ==
    \/ word = part
    \/ openLeft /\ ~openRight /\ EndsWithWord(word, part)
    \/ ~openLeft /\ openRight /\ StartsWithWord(word, part)
    \/ openLeft /\ openRight /\ ContainsWord(word, part)

\* the phrase occurs in the message, its first word being (in) word i
PhraseAt(msg, i, phrase, openLeft, openRight) ==
    LET n == Len(phrase)
    IN  /\ n >= 1
        /\ i >= 1
        /\ i + n - 1 <= Len(msg)
        /\ \A k \in 1..n :
            MatchWord(ToLower(msg[i + k - 1]), phrase[k],
                      openLeft /\ k = 1, openRight /\ k = n)

\* lowerMessage.includes(kw.toLowerCase())
IncludesPhrase(msg, phrase) ==
    \E i \in 1..Len(msg) : PhraseAt(msg, i, phrase, TRUE, TRUE)

\* parts of a regular expression: a word, an optional word, alternatives
W(word) == {<<word>>}
Opt(word) == {<<>>, <<word>>}
Alt(words) == {<<w>> : w \in words}

RECURSIVE Expand(_)
\* the phrases a sequence of parts stands for
Expand(parts) ==
    IF parts = <<>> THEN {<<>>}
    ELSE {a \o b : a \in Head(parts), b \in Expand(Tail(parts))}

\* a pattern: its literal parts; whether a group (.+) precedes or follows
\* them; whether it is anchored by ^; a second literal after a group (.+)
Pat(parts, before, after, anchored, then) ==
    [parts |-> parts, before |-> before, after |-> after, anchored |-> anchored,
     then |-> then]

\* message.match(pattern) is not null
Matches(msg, pat) ==
    \E phrase \in Expand(pat.parts), i \in 1..Len(msg) :
        /\ pat.anchored => i = 1
        /\ PhraseAt(msg, i, phrase, ~pat.before /\ ~pat.anchored,
                    ~pat.after /\ pat.then = <<>>)
        /\ pat.before => i > 1
        /\ pat.after => i + Len(phrase) - 1 < Len(msg)
        /\ pat.then # <<>> =>
            \E j \in (i + Len(phrase) + 1)..Len(msg) :
                PhraseAt(msg, j, pat.then, FALSE, TRUE)

\* this.intents, in definition order; confidence in hundredths
intents == <<
    [name |-> "access_request",
     keywords |-> {<<"access">>, <<"need">>, <<"permission">>, <<"grant">>, <<"allow">>,
                   <<"enable">>},
     patterns |-> <<
        Pat(<<W("need"), W("access"), W("to")>>, FALSE, TRUE, FALSE, <<>>),
        Pat(<<W("can"), W("i"), Alt({"get", "have"}), W("access"), W("to")>>,
            FALSE, TRUE, FALSE, <<>>),
        Pat(<<Alt({"grant", "give"}), Opt("me"), W("access"), W("to")>>,
            FALSE, TRUE, FALSE, <<>>),
        Pat(<<W("i"), W("need")>>, FALSE, TRUE, FALSE, <<"access">>) >>,
     confidence |-> 80],
    [name |-> "ticket_creation",
     keywords |-> {<<"broken">>, <<"not", "working">>, <<"issue">>, <<"problem">>,
                   <<"help">>, <<"fix">>, <<"repair">>, <<"error">>},
     patterns |-> <<
        Pat(<<Alt({"is", "isn't", "not"}), W("working")>>, TRUE, FALSE, FALSE, <<>>),
        Pat(<<Alt({"having", "got"}), Opt("a"), W("problem"), W("with")>>,
            FALSE, TRUE, FALSE, <<>>),
        Pat(<<W("broken")>>, TRUE, FALSE, FALSE, <<>>),
        Pat(<<W("issue"), W("with")>>, FALSE, TRUE, FALSE, <<>>) >>,
     confidence |-> 70],
    [name |-> "ticket_query",
     keywords |-> {<<"show">>, <<"list">>, <<"view">>, <<"display">>, <<"tickets">>,
                   <<"open">>, <<"pending">>},
     patterns |-> <<
        Pat(<<W("show"), Opt("me"), {<<>>, <<"all">>, <<"the">>}, Opt("open"),
              W("tickets")>>, FALSE, FALSE, FALSE, <<>>),
        Pat(<<Alt({"list", "display"}), W("tickets")>>, FALSE, FALSE, FALSE, <<>>),
        Pat(<<W("tickets"), W("from")>>, FALSE, TRUE, FALSE, <<>>),
        Pat(<<W("what"), Alt({"are", "is"}), Alt({"the", "my"}), W("tickets")>>,
            FALSE, FALSE, FALSE, <<>>) >>,
     confidence |-> 75],
    [name |-> "onboarding_query",
     keywords |-> {<<"onboarding">>, <<"new", "hire">>, <<"checklist">>, <<"employee">>,
                   <<"orientation">>},
     patterns |-> <<
        Pat(<<W("onboarding"), Alt({"for", "checklist"})>>, FALSE, FALSE, FALSE, <<>>),
        Pat(<<W("new"), Alt({"hire", "employee"})>>, FALSE, TRUE, FALSE, <<>>),
        Pat(<<W("show"), Opt("me"), Opt("the"), Opt("onboarding"), W("checklist")>>,
            FALSE, FALSE, FALSE, <<>>) >>,
     confidence |-> 80],
    [name |-> "greeting",
     keywords |-> {<<"hello">>, <<"hi">>, <<"hey">>, <<"good", "morning">>,
                   <<"good", "afternoon">>, <<"greetings">>},
     patterns |-> <<
        Pat(<<Alt({"hello", "hi", "hey", "greetings"})>>, FALSE, FALSE, TRUE, <<>>),
        Pat(<<W("good"), Alt({"morning", "afternoon", "evening"})>>,
            FALSE, FALSE, FALSE, <<>>) >>,
     confidence |-> 90],
    [name |-> "help",
     keywords |-> {<<"help">>, <<"what", "can", "you", "do">>, <<"how">>, <<"guide">>,
                   <<"assist">>},
     patterns |-> <<
        Pat(<<W("help")>>, FALSE, FALSE, FALSE, <<>>),
        Pat(<<W("what"), W("can"), W("you"), W("do")>>, FALSE, FALSE, FALSE, <<>>),
        Pat(<<W("how"), {<<"do", "i">>, <<"to">>}>>, FALSE, FALSE, FALSE, <<>>) >>,
     confidence |-> 85],
    [name |-> "status_check",
     keywords |-> {<<"status">>, <<"state">>, <<"progress">>, <<"update">>},
     patterns |-> <<
        Pat(<<{<<"what's">>, <<"what", "is">>}, Opt("the"), W("status")>>,
            FALSE, FALSE, FALSE, <<>>),
        Pat(<<W("check"), W("status"), W("of")>>, FALSE, TRUE, FALSE, <<>>),
        Pat(<<W("status"), Alt({"on", "of"})>>, FALSE, TRUE, FALSE, <<>>) >>,
     confidence |-> 70] >>

\* Scores are integers in units of 1/840000: 840 is the least common multiple
\* of the numbers of keywords (6, 8, 7, 5, 6, 5, 4), 0.4 and 0.6 are 4 and 6
\* tenths, the confidence modifiers are hundredths. The order of the
\* floating-point scores of the source is the order of these exact values.
KeywordScale == 840

FullScore == KeywordScale * 10 * 100

\* the loop over intentData.patterns: some pattern matches
anyPattern(msg, intentData) ==
    \E k \in DOMAIN intentData.patterns : Matches(msg, intentData.patterns[k])

\* the score detect computes for one intent
intentScore(msg, intentData) ==
    LET keywordMatches == {kw \in intentData.keywords : IncludesPhrase(msg, kw)}
        keywordScore == (Cardinality(keywordMatches) * 4 * KeywordScale)
                            \div Cardinality(intentData.keywords)
        patternScore == IF anyPattern(msg, intentData) THEN 6 * KeywordScale ELSE 0
    IN  (keywordScore + patternScore) * intentData.confidence

unknownIntent == [intent |-> "unknown", confidence |-> 0]

betterOrEqual(score, bestMatch) == score >= bestMatch.confidence

\* if (score > bestMatch.confidence)
better(score, bestMatch) == score > bestMatch.confidence

RECURSIVE detectFrom(_, _, _)
\* the loop of detect over Object.entries(this.intents), from intent i on
detectFrom(i, msg, bestMatch) ==
    IF i > Len(intents) THEN bestMatch
    ELSE LET score == intentScore(msg, intents[i])
         IN  detectFrom(i + 1, msg,
                        IF better(score, bestMatch)
                        THEN [intent |-> intents[i].name, confidence |-> score]
                        ELSE bestMatch)

\* IntentDetector.detect(message), without the extracted entities
detect(msg) == detectFrom(1, msg, unknownIntent)

----------------------------------------------------------------------------
(* agentService.classifyTicket *)

\* words of the texts: one keyword of each category, a word that holds the
\* keyword lan, and the words of the priority keywords
TicketWords == {"Laptop", "vpn", "login", "crash", "plan", "cannot", "access", "slow"}

TicketTexts == UNION {[1..n -> TicketWords] : n \in 0..MaxTicketWords}

\* /a|b|c/.test(lower): some alternative occurs in the text
Test(alternatives, text) == \E phrase \in alternatives : IncludesPhrase(text, phrase)

hardwareKeywords == {<<"laptop">>, <<"hardware">>, <<"device">>, <<"keyboard">>, <<"mouse">>}
networkKeywords == {<<"vpn">>, <<"network">>, <<"wifi">>, <<"lan">>}
accessKeywords == {<<"login">>, <<"access">>, <<"permission">>, <<"authorize">>}
softwareKeywords == {<<"error">>, <<"bug">>, <<"issue">>, <<"crash">>, <<"exception">>}

categoryNetworkFirst(text) ==
    IF Test(networkKeywords, text) THEN "network"
    ELSE IF Test(hardwareKeywords, text) THEN "hardware"
    ELSE IF Test(accessKeywords, text) THEN "access"
    ELSE IF Test(softwareKeywords, text) THEN "software"
    ELSE "general"

\* the if / else if chain that sets category
category(text) ==
    IF Test(hardwareKeywords, text) THEN "hardware"
    ELSE IF Test(networkKeywords, text) THEN "network"
    ELSE IF Test(accessKeywords, text) THEN "access"
    ELSE IF Test(softwareKeywords, text) THEN "software"
    ELSE "general"

\* the if / else if chain that sets priority
ticketPriority(text) ==
    IF Test({<<"outage">>, <<"down">>, <<"cannot", "access">>, <<"urgent">>,
             <<"production">>}, text) THEN "high"
    ELSE IF Test({<<"slow">>, <<"minor">>, <<"typo">>}, text) THEN "low"
    ELSE "medium"

assigneeSuggestion(cat) ==
    CASE cat = "network" -> "network-team"
      [] cat = "hardware" -> "helpdesk"
      [] cat = "software" -> "app-support"
      [] cat = "access" -> "iam-team"
      [] OTHER -> None

\* AgentService.classifyTicket(text)
classifyTicket(text) ==
    [category |-> category(text),
     priority |-> ticketPriority(text),
     assigneeSuggestion |-> assigneeSuggestion(category(text))]

----------------------------------------------------------------------------
(* SimpleCache *)

\* one key more than the cache holds
CacheKeys == 1..(MaxEntries + 1)
CacheValues == {"v1", "v2"}

\* this.map.has(key)
Has(map, key) == \E i \in DOMAIN map : map[i].key = key

\* this.map.get(key), for a key the map has
ValueOf(map, key) == (CHOOSE e \in {map[i] : i \in DOMAIN map} : e.key = key).value

\* this.map.delete(key)
Delete(map, key) == SelectSeq(map, LAMBDA e : e.key # key)

MapSetMovesToEnd(map, key, value) ==
    Append(Delete(map, key), [key |-> key, value |-> value])

\* this.map.set(key, value): a new key is appended, the value of a key the
\* map has is replaced where the key is
MapSet(map, key, value) ==
    IF Has(map, key)
    THEN [i \in DOMAIN map |-> IF map[i].key = key THEN [key |-> key, value |-> value]
                                                  ELSE map[i]]
    ELSE Append(map, [key |-> key, value |-> value])

\* SimpleCache.get: the map afterwards
cacheGet(map, key) ==
    IF ~Has(map, key) THEN map
    ELSE MapSet(Delete(map, key), key, ValueOf(map, key))

\* SimpleCache.set: the map afterwards
cacheSet(map, key, value) ==
    IF Len(map) >= MaxEntries /\ ~Has(map, key)
    THEN MapSet(Delete(map, map[1].key), key, value)
    ELSE MapSet(map, key, value)

\* the order of last use after a use of key, among the keys the map holds
Used(order, key, map) ==
    LET kept == SelectSeq(order, LAMBDA k : k # key /\ Has(map, k))
    IN  IF Has(map, key) THEN Append(kept, key) ELSE kept

Get ==
    /\ \E key \in CacheKeys :
        /\ cacheMap' = cacheGet(cacheMap, key)
        /\ recency' = Used(recency, key, cacheMap')
    /\ UNCHANGED nonCacheVars

Set ==
    /\ \E key \in CacheKeys, value \in CacheValues :
        /\ cacheMap' = cacheSet(cacheMap, key, value)
        /\ recency' = Used(recency, key, cacheMap')
    /\ UNCHANGED nonCacheVars

----------------------------------------------------------------------------
(* callModel and its cache *)

\* makeCacheKey(prompt, opts): the digests of two different prompt and
\* metadata pairs
PromptKeys == 1..2

InvocationIds == 1..MaxInvocations

NotCalled == [key |-> 0, at |-> "none", text |-> None, cached |-> FALSE]

\* callModel up to its return from the cache or from the fallback, or up to
\* its await of client.chat.completions.create
CallModel ==
    /\ \E i \in InvocationIds, key \in PromptKeys :
        /\ invocations[i] = NotCalled
        /\ IF Has(cacheMap, key)
           THEN /\ invocations' = [invocations EXCEPT ![i] =
                        [key |-> key, at |-> "returned",
                         text |-> ValueOf(cacheMap, key), cached |-> TRUE]]
                /\ cacheMap' = cacheGet(cacheMap, key)
                /\ UNCHANGED apiCalls
           ELSE IF ~hasOpenAI
           THEN /\ invocations' = [invocations EXCEPT ![i] =
                        [key |-> key, at |-> "returned", text |-> "fallback",
                         cached |-> FALSE]]
                /\ cacheMap' = cacheSet(cacheMap, key, "fallback")
                /\ UNCHANGED apiCalls
           ELSE /\ invocations' = [invocations EXCEPT ![i] =
                        [key |-> key, at |-> "awaiting", text |-> None,
                         cached |-> FALSE]]
                /\ apiCalls' = [apiCalls EXCEPT ![key] = @ + 1]
                /\ UNCHANGED cacheMap
        /\ recency' = Used(recency, key, cacheMap')
    /\ UNCHANGED <<hasOpenAI, failedCalls>>
    /\ UNCHANGED nonModelVars

\* the external model answers: the text is cached and returned
ModelAnswers ==
    /\ \E i \in InvocationIds :
        /\ invocations[i].at = "awaiting"
        /\ invocations' = [invocations EXCEPT ![i].at = "returned", ![i].text = "answer"]
        /\ cacheMap' = cacheSet(cacheMap, invocations[i].key, "answer")
        /\ recency' = Used(recency, invocations[i].key, cacheMap')
    /\ UNCHANGED <<hasOpenAI, apiCalls, failedCalls>>
    /\ UNCHANGED nonModelVars

\* the request to the external model fails: callModel rejects, nothing is cached
ModelFails ==
    /\ \E i \in InvocationIds :
        /\ invocations[i].at = "awaiting"
        /\ invocations' = [invocations EXCEPT ![i].at = "rejected"]
        /\ failedCalls' = [failedCalls EXCEPT ![invocations[i].key] = @ + 1]
    /\ UNCHANGED <<hasOpenAI, apiCalls, cacheMap, recency>>
    /\ UNCHANGED nonModelVars

----------------------------------------------------------------------------
(* The callback of the SLA timer: monitorSLA, then the notifications *)

\* instants at which the tickets of the table were created
CreationInstants == {0, 4, 8}

\* ticket a comes before ticket b in SELECT * FROM tickets ORDER BY created_at
\* DESC (rows created at the same instant in the order of their ids)
CreatedBefore(rows, a, b) ==
    \/ rows[a].created_at > rows[b].created_at
    \/ rows[a].created_at = rows[b].created_at /\ a < b

\* the ids of the rows getAllTickets returns, in its order
getAllTicketsOrdered(rows) ==
    LET ids == getAllTickets(rows, "open")
        n == Cardinality(ids)
    IN  CHOOSE s \in [1..n -> ids] :
            /\ \A i, j \in 1..n : i # j => s[i] # s[j]
            /\ \A i, j \in 1..n : i < j => CreatedBefore(rows, s[i], s[j])

\* escalatedTickets.slice(-r.escalated)
recentlyEscalated(rows, count) ==
    LET all == getAllTicketsOrdered(rows)
        escalatedTickets == SelectSeq(all, LAMBDA id : rows[id].escalated_at # NULL)
        n == Len(escalatedTickets)
    IN  SubSeq(escalatedTickets, n - Min(count, n) + 1, n)

\* the callback of setInterval(..., TEN_MIN): the sweep, and when it escalated
\* tickets a notification for each ticket of recentlyEscalated
TimerSweep ==
    /\ tickets' = monitorSLA(tickets, clock)
    /\ lastEscalated' = monitorSLACount(tickets, clock)
    /\ notified' = IF lastEscalated' > 0
                   THEN recentlyEscalated(tickets', lastEscalated')
                   ELSE <<>>
    /\ Record("monitorSLA")
    /\ UNCHANGED clock
    /\ UNCHANGED <<routerVars, accessVars, scoringVars, concurrentVars>>
    /\ UNCHANGED <<classifyVars, cacheVars, modelVars, authVars>>

\* time passes
NotifyTick ==
    /\ Tick
    /\ UNCHANGED notified

----------------------------------------------------------------------------
(* Sessions and the admin-only endpoints *)

\* the user named by no session and no row
Undefined == "undefined"

\* a session without a user: a new browser, or after req.session.destroy()
NoSession == [userId |-> Undefined, userRole |-> Undefined]

\* no admin-only endpoint has answered
NoReply == [endpoint |-> None, http |-> 0]

\* e-mail addresses of the people who sign up
Emails == {"ann", "bob"}

\* an empty users table and a browser that has not signed in
NoAuth ==
    /\ users = [email \in Emails |-> Undefined]
    /\ session = NoSession
    /\ adminReply = NoReply

\* values of the role field of the signup form
Roles == {"employee", "it_staff", "hr", "admin"}

\* the endpoints guarded by req.session.userRole !== 'admin'
AdminEndpoints == {"GET /api/cache/stats", "POST /api/cache/clear",
                   "GET /api/integrations/status", "GET /api/integrations/logs",
                   "GET /api/email/stats", "POST /api/email/test"}

\* req.session.userId = id: the only field of the session a handler assigns
sessionFor(s, id) == [s EXCEPT !.userId = id]

\* POST /api/auth/signup: the INSERT fails for a registered e-mail address
Signup ==
    /\ \E email \in Emails, role \in Roles \cup {Undefined} :
        IF users[email] # Undefined
        THEN UNCHANGED <<users, session>>
        ELSE LET stored == IF role = Undefined THEN "employee" ELSE role
             IN  /\ users' = [users EXCEPT ![email] = stored]
                 /\ session' = sessionFor(session, email)
    /\ adminReply' = NoReply
    /\ UNCHANGED nonAuthVars

\* POST /api/auth/login: authenticate finds the user and the password matches
Login ==
    /\ \E email \in Emails, valid \in BOOLEAN :
        IF users[email] # Undefined /\ valid
        THEN session' = sessionFor(session, email)
        ELSE UNCHANGED session
    /\ adminReply' = NoReply
    /\ UNCHANGED users
    /\ UNCHANGED nonAuthVars

\* POST /api/auth/logout
Logout ==
    /\ session' = NoSession
    /\ adminReply' = NoReply
    /\ UNCHANGED users
    /\ UNCHANGED nonAuthVars

\* requireAuth
requireAuth(s) == s.userId # Undefined

\* an admin-only endpoint: requireAuth, then the role guard
AdminRequest ==
    /\ \E endpoint \in AdminEndpoints :
        adminReply' = [endpoint |-> endpoint,
                       http |-> IF ~requireAuth(session) THEN 401
                                ELSE IF session.userRole # "admin" THEN 403
                                ELSE 200]
    /\ UNCHANGED <<users, session>>
    /\ UNCHANGED nonAuthVars

----------------------------------------------------------------------------
(* Specifications *)

DefaultConfig == [enableMultiAgent |-> TRUE, confidenceThreshold |-> 700, maxAgents |-> 2]

\* the router with no call in flight
RouterIdle ==
    /\ pc = "idle"
    /\ input = {}
    /\ context = NoContext
    /\ routingDecision = NoDecision
    /\ invoked = <<>>
    /\ enriched = <<>>
    /\ primaryResult = NoResult
    /\ pending = {}
    /\ settled = <<>>
    /\ completionOrder = <<>>
    /\ outcomes = <<>>
    /\ hung = {}
    /\ response = NoResponse
    /\ routingHistory = <<>>
    /\ calls = 0

NoClassification == [category |-> None, priority |-> None, assigneeSuggestion |-> None]

\* no classifyTicket call under study
NoClassify ==
    /\ ticketText = <<>>
    /\ classification = NoClassification

\* an empty cache
NoCache ==
    /\ cacheMap = <<>>
    /\ recency = <<>>

\* no callModel invocation under study
NoModel ==
    /\ hasOpenAI = FALSE
    /\ invocations = <<>>
    /\ apiCalls = <<>>
    /\ failedCalls = <<>>

\* the SLA timer's callback has sent no notification
NoNotifications == notified = <<>>

\* none of the components studied on their own is under study
NoAux ==
    /\ NoClassify
    /\ NoCache
    /\ NoModel
    /\ NoNotifications
    /\ NoAuth

\* no monitorSLA call is being executed
NoSweep == [trigger |-> [id |-> 0, kind |-> None, during |-> FALSE],
            rows |-> <<>>, now |-> 0, next |-> 0, escalated |-> 0]

\* no sweep triggers under study
NoSweeps ==
    /\ triggered = 0
    /\ queue = <<>>
    /\ sweeping = NoSweep
    /\ swept = 0
    /\ escalations = <<>>

\* no concurrent route calls or sweep triggers under study
NoConcurrency ==
    /\ inflight = {}
    /\ completed = <<>>
    /\ NoSweeps

\* an empty tickets table
NoTickets ==
    /\ tickets = <<>>
    /\ clock = 0
    /\ lastOp = None
    /\ sweepRun = 0
    /\ requests = 0
    /\ lastEscalated = 0

\* an empty access_requests table
NoRequests ==
    /\ accessRequests = <<>>
    /\ autoApproval = NoAutoApproval
    /\ lastAccessOp = None

(* analyzeRouting as a function of its inputs *)

\* no call of calculateConfidence under study
NoScores ==
    /\ handler = None
    /\ scores = <<>>
    /\ message = <<>>
    /\ detected = unknownIntent

InitAnalyze ==
    /\ config \in Configs
    /\ pc = "input"
    /\ input \in Texts
    /\ context \in Contexts
    /\ routingDecision = NoDecision
    /\ invoked = <<>>
    /\ enriched = <<>>
    /\ primaryResult = NoResult
    /\ pending = {}
    /\ settled = <<>>
    /\ completionOrder = <<>>
    /\ outcomes = <<>>
    /\ hung = {}
    /\ response = NoResponse
    /\ routingHistory = <<>>
    /\ calls = 0
    /\ NoTickets
    /\ NoRequests
    /\ NoConcurrency
    /\ NoScores
    /\ NoAux

AnalyzeRouting ==
    /\ pc = "input"
    /\ routingDecision' = analyzeRouting(input, context, config)
    /\ pc' = "analyzed"
    /\ UNCHANGED <<config, input, context, invoked, enriched, primaryResult,
                   pending, settled, completionOrder, outcomes, hung, response,
                   routingHistory, calls>>
    /\ UNCHANGED nonRouterVars

SpecAnalyze == InitAnalyze /\ [][AnalyzeRouting]_vars

(* calculateConfidence applied to a handler, a text and a context *)

\* words of the texts: five keywords of the escalation handler and one of others
ConfidenceVocabulary == {"URGENT", "critical", "emergency", "outage", "escalate", "setup"}

Handlers == {Agents[i] : i \in DOMAIN Agents} \cup {fallbackAgent}

InitConfidence ==
    /\ config = DefaultConfig
    /\ pc = "input"
    /\ input \in SUBSET ConfidenceVocabulary
    /\ context \in Contexts
    /\ routingDecision = NoDecision
    /\ invoked = <<>>
    /\ enriched = <<>>
    /\ primaryResult = NoResult
    /\ pending = {}
    /\ settled = <<>>
    /\ completionOrder = <<>>
    /\ outcomes = <<>>
    /\ hung = {}
    /\ response = NoResponse
    /\ routingHistory = <<>>
    /\ calls = 0
    /\ NoTickets
    /\ NoRequests
    /\ NoConcurrency
    /\ handler \in Handlers
    /\ scores = <<>>
    /\ message = <<>>
    /\ detected = unknownIntent
    /\ NoAux

\* calculateConfidence(handler, input, context), and the same call with
\* context.priority set to "high" and to "medium"
CalculateConfidence ==
    /\ pc = "input"
    /\ scores' = [own |-> calculateConfidence(handler, input, context),
                  high |-> calculateConfidence(handler, input,
                                               [context EXCEPT !.priority = "high"]),
                  medium |-> calculateConfidence(handler, input,
                                                 [context EXCEPT !.priority = "medium"])]
    /\ pc' = "scored"
    /\ UNCHANGED <<config, input, context, routingDecision, invoked, enriched,
                   primaryResult, pending, settled, completionOrder, outcomes, hung,
                   response, routingHistory, calls, handler, message, detected>>
    /\ UNCHANGED <<slaVars, accessVars, concurrentVars>>
    /\ UNCHANGED auxVars

SpecConfidence == InitConfidence /\ [][CalculateConfidence]_vars

(* detect applied to a message *)

InitIntent ==
    /\ config = DefaultConfig
    /\ RouterIdle
    /\ NoTickets
    /\ NoRequests
    /\ NoConcurrency
    /\ handler = None
    /\ scores = <<>>
    /\ message \in Messages
    /\ detected = unknownIntent
    /\ NoAux
    /\ pc = "idle"

Detect ==
    /\ lastOp = None
    /\ detected' = detect(message)
    /\ lastOp' = "detect"
    /\ UNCHANGED <<routerVars, accessVars, concurrentVars, handler, scores, message>>
    /\ UNCHANGED auxVars
    /\ UNCHANGED <<tickets, clock, sweepRun, requests, lastEscalated>>

SpecIntent == InitIntent /\ [][Detect]_vars

(* calculateConfidence and detect, each applied once *)

ShortMessages == {msg \in Messages : Len(msg) <= ShortWords}

InitConfidences ==
    /\ config = DefaultConfig
    /\ pc = "input"
    /\ input \in SUBSET ConfidenceVocabulary
    /\ context \in Contexts
    /\ routingDecision = NoDecision
    /\ invoked = <<>>
    /\ enriched = <<>>
    /\ primaryResult = NoResult
    /\ pending = {}
    /\ settled = <<>>
    /\ completionOrder = <<>>
    /\ outcomes = <<>>
    /\ hung = {}
    /\ response = NoResponse
    /\ routingHistory = <<>>
    /\ calls = 0
    /\ NoTickets
    /\ NoRequests
    /\ NoConcurrency
    /\ handler \in Handlers
    /\ scores = <<>>
    /\ message \in ShortMessages
    /\ detected = unknownIntent
    /\ NoAux

SpecConfidences == InitConfidences /\ [][CalculateConfidence \/ Detect]_vars

(* route calls, one at a time *)

RouterTexts == {{}, {"error"}, {"slow", "Help", "setup"}, {"URGENT", "error", "access"}}

RouterContexts == [priority : {"high", "medium"}, userRole : {"employee"},
                   severity : {None}, timeElapsed : {0}]

InitRouter ==
    /\ config \in Configs
    /\ RouterIdle
    /\ NoTickets
    /\ NoRequests
    /\ NoConcurrency
    /\ NoScores
    /\ NoAux

NextRouter ==
    \/ Route(RouterTexts, RouterContexts)
    \/ SingleSettles
    \/ PrimarySettles
    \/ SecondarySettles
    \/ HandlerHangs

SpecRouter == InitRouter /\ [][NextRouter]_vars

(* the SLA sweep over a tickets table that holds malformed rows *)

\* rows whose created_at is missing (the column is nullable) or unparseable
MalformedTickets ==
    [status : {"open"},
     priority : {"low", "medium", "high", "urgent"},
     created_at : {NULL, InvalidDate},
     escalated_at : {NULL},
     escalation_level : {0}]

InitMalformed ==
    /\ config = DefaultConfig
    /\ RouterIdle
    /\ tickets \in [TicketIds -> InitialTickets \cup MalformedTickets]
    /\ \E id \in TicketIds : tickets[id] \in MalformedTickets
    /\ clock = 0
    /\ lastOp = None
    /\ sweepRun = 0
    /\ requests = 0
    /\ lastEscalated = 0
    /\ NoRequests
    /\ NoConcurrency
    /\ NoScores
    /\ NoAux

NextMalformed ==
    \/ Tick
    \/ MonitorSLA

SpecMalformed == InitMalformed /\ [][NextMalformed]_vars

(* classifyTicket applied to a text *)

InitClassify ==
    /\ config = DefaultConfig
    /\ RouterIdle
    /\ NoTickets
    /\ NoRequests
    /\ NoConcurrency
    /\ NoScores
    /\ ticketText \in TicketTexts
    /\ classification = NoClassification
    /\ NoCache
    /\ NoModel
    /\ NoNotifications
    /\ NoAuth

ClassifyTicket ==
    /\ classification = NoClassification
    /\ classification' = classifyTicket(ticketText)
    /\ UNCHANGED ticketText
    /\ UNCHANGED nonClassifyVars

SpecClassify == InitClassify /\ [][ClassifyTicket]_vars

(* a SimpleCache under get and set *)

InitCache ==
    /\ config = DefaultConfig
    /\ RouterIdle
    /\ NoTickets
    /\ NoRequests
    /\ NoConcurrency
    /\ NoScores
    /\ NoClassify
    /\ NoCache
    /\ NoModel
    /\ NoNotifications
    /\ NoAuth

NextCache ==
    \/ Get
    \/ Set

SpecCache == InitCache /\ [][NextCache]_vars

(* callModel invoked for prompts, the invocations overlapping at their await *)

InitModel ==
    /\ config = DefaultConfig
    /\ RouterIdle
    /\ NoTickets
    /\ NoRequests
    /\ NoConcurrency
    /\ NoScores
    /\ NoClassify
    /\ NoCache
    /\ hasOpenAI \in BOOLEAN
    /\ invocations = [i \in InvocationIds |-> NotCalled]
    /\ apiCalls = [key \in PromptKeys |-> 0]
    /\ failedCalls = [key \in PromptKeys |-> 0]
    /\ NoNotifications
    /\ NoAuth

NextModel ==
    \/ CallModel
    \/ ModelAnswers
    \/ ModelFails

SpecModel == InitModel /\ [][NextModel]_vars

(* a browser session and the admin-only endpoints *)

InitAuth ==
    /\ config = DefaultConfig
    /\ RouterIdle
    /\ NoTickets
    /\ NoRequests
    /\ NoConcurrency
    /\ NoScores
    /\ NoAux

NextAuth ==
    \/ Signup
    \/ Login
    \/ Logout
    \/ AdminRequest

SpecAuth == InitAuth /\ [][NextAuth]_vars

(* the SLA timer over tickets created at different instants *)

InitNotify ==
    /\ config = DefaultConfig
    /\ RouterIdle
    /\ \E created \in [TicketIds -> CreationInstants] :
        /\ \A a, b \in TicketIds : a # b => created[a] # created[b]
        /\ \E rows \in [TicketIds -> InitialTickets] :
            tickets = [id \in TicketIds |-> [rows[id] EXCEPT !.created_at = created[id]]]
    /\ clock = 8
    /\ lastOp = None
    /\ sweepRun = 0
    /\ requests = 0
    /\ lastEscalated = 0
    /\ NoRequests
    /\ NoConcurrency
    /\ NoScores
    /\ NoClassify
    /\ NoCache
    /\ NoModel
    /\ NoNotifications
    /\ NoAuth

NextNotify ==
    \/ NotifyTick
    \/ TimerSweep

SpecNotify == InitNotify /\ [][NextNotify]_vars

(* SLA sweeps triggered by the timer and by POST /api/tickets/escalate/run *)

TriggerKinds == {"timer", "request"}

Sweeping == sweeping.next # 0

InitSweeps ==
    /\ config = DefaultConfig
    /\ RouterIdle
    /\ tickets \in [TicketIds -> InitialTickets]
    /\ clock = 0
    /\ lastOp = None
    /\ sweepRun = 0
    /\ requests = 0
    /\ lastEscalated = 0
    /\ NoRequests
    /\ inflight = {}
    /\ completed = <<>>
    /\ triggered = 0
    /\ queue = <<>>
    /\ sweeping = NoSweep
    /\ swept = 0
    /\ escalations = [id \in TicketIds |-> 0]
    /\ NoScores
    /\ NoAux

\* the interval of the SLA timer expires, or a request for the sweep endpoint
\* arrives: the callback waits in the event loop, also while a sweep executes
SweepTriggered ==
    /\ triggered < MaxTriggers
    /\ triggered' = triggered + 1
    /\ \E kind \in TriggerKinds :
        queue' = Append(queue, [id |-> triggered + 1, kind |-> kind, during |-> Sweeping])
    /\ UNCHANGED <<inflight, completed, sweeping, swept, escalations>>
    /\ UNCHANGED <<routerVars, slaVars, accessVars, scoringVars>>
    /\ UNCHANGED auxVars

\* the event loop runs the next callback, which calls monitorSLA: the rows are
\* read and the time is taken; a callback starts only when none is executing
SweepStarts ==
    /\ ~Sweeping
    /\ queue # <<>>
    /\ sweeping' = [trigger |-> Head(queue), rows |-> tickets, now |-> clock,
                    next |-> 1, escalated |-> 0]
    /\ queue' = Tail(queue)
    /\ UNCHANGED <<inflight, completed, triggered, swept, escalations>>
    /\ UNCHANGED <<routerVars, slaVars, accessVars, scoringVars>>
    /\ UNCHANGED auxVars

\* one iteration of the loop of monitorSLA, on the row read at the start
SweepExamines ==
    /\ Sweeping
    /\ sweeping.next \in getAllTickets(sweeping.rows, "open")
    /\ LET id == sweeping.next
           t == sweeping.rows[id]
       IN  IF Violates(t, sweeping.now)
           THEN /\ tickets' = [tickets EXCEPT ![id] =
                                  [Escalated(t, sweeping.now) EXCEPT !.escalated_at = clock]]
                /\ escalations' = [escalations EXCEPT ![id] = @ + 1]
                /\ sweeping' = [sweeping EXCEPT !.next = @ + 1, !.escalated = @ + 1]
           ELSE /\ sweeping' = [sweeping EXCEPT !.next = @ + 1]
                /\ UNCHANGED <<tickets, escalations>>
    /\ UNCHANGED <<inflight, completed, triggered, queue, swept>>
    /\ UNCHANGED <<clock, lastOp, sweepRun, requests, lastEscalated>>
    /\ UNCHANGED <<routerVars, accessVars, scoringVars>>
    /\ UNCHANGED auxVars

\* monitorSLA returns {scanned, escalated}; the notifications the timer's
\* callback then sends change no ticket
SweepReturns ==
    /\ Sweeping
    /\ sweeping.next \notin getAllTickets(sweeping.rows, "open")
    /\ sweeping' = NoSweep
    /\ swept' = swept + 1
    /\ lastEscalated' = sweeping.escalated
    /\ Record("monitorSLA")
    /\ UNCHANGED <<inflight, completed, triggered, queue, escalations>>
    /\ UNCHANGED <<tickets, clock>>
    /\ UNCHANGED <<routerVars, accessVars, scoringVars>>
    /\ UNCHANGED auxVars

NextSweeps ==
    \/ Tick
    \/ SweepTriggered
    \/ SweepStarts
    \/ SweepExamines
    \/ SweepReturns

SpecSweeps == InitSweeps /\ [][NextSweeps]_vars

(* concurrent route calls and the routing log *)

\* the object call c hands to logRouting: its handler (the fallback, awaited
\* alone) returned or threw
LoggedEntry(c, outcome) ==
    [input |-> {}, agents |-> <<fallbackAgent>>,
     results |-> <<execute(fallbackAgent, outcome).value>>, timestamp |-> c]

\* the router after n route calls, one after the other, whose handler returned
InitLog ==
    /\ config = DefaultConfig
    /\ pc = "idle"
    /\ input = {}
    /\ context = NoContext
    /\ routingDecision = NoDecision
    /\ invoked = <<>>
    /\ enriched = <<>>
    /\ primaryResult = NoResult
    /\ pending = {}
    /\ settled = <<>>
    /\ completionOrder = <<>>
    /\ outcomes = <<>>
    /\ hung = {}
    /\ response = NoResponse
    /\ \E n \in (HistoryCapacity - 2)..HistoryCapacity :
        /\ calls = n
        /\ completed = [k \in 1..n |-> k]
        /\ routingHistory = [k \in 1..n |-> LoggedEntry(k, "returns")]
    /\ inflight = {}
    /\ NoSweeps
    /\ NoTickets
    /\ NoRequests
    /\ NoScores
    /\ NoAux

\* route is called: analyzeRouting selects the fallback, whose execute is awaited
BeginRoute ==
    /\ calls < HistoryCapacity + MaxLogCalls
    /\ calls' = calls + 1
    /\ inflight' = inflight \cup {calls + 1}
    /\ UNCHANGED <<config, pc, input, context, routingDecision, invoked, enriched,
                   primaryResult, pending, settled, completionOrder, outcomes, hung,
                   response, routingHistory, completed>>
    /\ UNCHANGED <<triggered, queue, sweeping, swept, escalations>>
    /\ UNCHANGED <<slaVars, accessVars, scoringVars>>
    /\ UNCHANGED auxVars

\* the handler of one of the calls in flight settles: the tail of route's try block
CompleteRoute ==
    /\ \E c \in inflight, o \in Outcomes :
        LET entry == LoggedEntry(c, o)
        IN  /\ routingHistory' = logRouting(routingHistory, entry)
            /\ response' = [success |-> TRUE, routing |-> entry.agents,
                            results |-> entry.results,
                            agentsUsed |-> <<entry.results[1].agent>>]
            /\ completed' = Append(completed, c)
            /\ inflight' = inflight \ {c}
    /\ UNCHANGED <<config, pc, input, context, routingDecision, invoked, enriched,
                   primaryResult, pending, settled, completionOrder, outcomes, hung,
                   calls>>
    /\ UNCHANGED <<triggered, queue, sweeping, swept, escalations>>
    /\ UNCHANGED <<slaVars, accessVars, scoringVars>>
    /\ UNCHANGED auxVars

NextLog ==
    \/ BeginRoute
    \/ CompleteRoute

SpecLog == InitLog /\ [][NextLog]_vars

(* the tickets table under the SLA sweeps and the escalation operations *)

InitSLA ==
    /\ config = DefaultConfig
    /\ RouterIdle
    /\ tickets \in [TicketIds -> InitialTickets]
    /\ clock = 0
    /\ lastOp = None
    /\ sweepRun = 0
    /\ requests = 0
    /\ lastEscalated = 0
    /\ NoRequests
    /\ NoConcurrency
    /\ NoScores
    /\ NoAux

NextSLA ==
    \/ Tick
    \/ MonitorSLA
    \/ EscalateEndpoint
    \/ SlaMonitorEndpoint
    \/ EscalationAgentRun

SpecSLA == InitSLA /\ [][NextSLA]_vars

(* the access_requests table under the automated approval paths *)

InitAccess ==
    /\ config = DefaultConfig
    /\ RouterIdle
    /\ NoTickets
    /\ NoRequests
    /\ NoConcurrency
    /\ NoScores
    /\ NoAux

NextAccess ==
    \/ CreateAccessRequest
    \/ ScanAccessRequests
    \/ AutoApproveEndpoint
    \/ AccessAgentRun

SpecAccess == InitAccess /\ [][NextAccess]_vars

----------------------------------------------------------------------------
(* Properties of analyzeRouting (SpecAnalyze) *)

\* registered handlers that are capable and reach the threshold, by position
Qualifying ==
    {i \in 1..Len(Agents) :
        /\ canHandle(Agents[i], input, context)
        /\ calculateConfidence(Agents[i], input, context) >= config.confidenceThreshold}

\* position of handler i among the qualifying ones: more confident first, and
\* among equally confident ones the earlier registered first
Rank(i) ==
    LET conf(j) == calculateConfidence(Agents[j], input, context)
    IN  1 + Cardinality({j \in Qualifying :
                            conf(j) > conf(i) \/ (conf(j) = conf(i) /\ j < i)})

ExpectedSelection ==
    IF Qualifying = {} THEN <<fallbackAgent>>
    ELSE [k \in 1..Min(config.maxAgents, Cardinality(Qualifying)) |->
            Agents[CHOOSE i \in Qualifying : Rank(i) = k]]

\* C1: for every text, context, threshold and maxAgents >= 1, the decision
\* analyzeRouting returns selects at least 1 and at most maxAgents handlers
C1_SelectionBounded ==
    pc = "analyzed" =>
        /\ Len(routingDecision.agents) >= 1
        /\ Len(routingDecision.agents) <= config.maxAgents

\* a decision truncated to maxAgents = 2 out of more candidates
C1_Witness ==
    /\ pc = "analyzed"
    /\ config.maxAgents = 2
    /\ Len(routingDecision.candidates) > 2
    /\ Len(routingDecision.agents) = 2

\* C2: the selection is the first maxAgents of the capable handlers that reach
\* the threshold, by descending confidence, ties in registration order; with
\* no such handler it is the fallback handler alone
C2_SelectionIsTopCandidates ==
    pc = "analyzed" => routingDecision.agents = ExpectedSelection

\* two equally confident candidates compete for the last selected place
C2_Witness ==
    /\ pc = "analyzed"
    /\ Len(routingDecision.candidates) > config.maxAgents
    /\ routingDecision.candidates[config.maxAgents].confidence
         = routingDecision.candidates[config.maxAgents + 1].confidence
    /\ routingDecision.agents = ExpectedSelection

----------------------------------------------------------------------------
(* Properties of the execution of the selected handlers (SpecRouter) *)

\* a route call has returned
RouteReturned == pc = "idle" /\ calls > 0

\* C9: a multi-agent execution returns the results in selection order, the
\* primary's first, whatever the order in which the secondaries completed
C9_ResultsInSelectionOrder ==
    (RouteReturned /\ response.success /\ Len(response.results) > 1) =>
        /\ Len(response.results) = Len(routingDecision.agents)
        /\ response.results[1] = primaryResult
        /\ \A i \in 2..Len(response.results) :
            /\ response.results[i] = settled[i].value
            /\ response.results[i].agent = AgentName(routingDecision.agents[i])

\* three handlers, the third completed before the second
C9_Witness ==
    /\ RouteReturned
    /\ response.success
    /\ Len(response.results) = 3
    /\ completionOrder = <<3, 2>>

\* what BaseAgent.execute is to answer for a handler whose run() did `o`
ResultFor(agent, o) ==
    [success |-> o = "returns", agent |-> AgentName(agent),
     error |-> IF o = "throws" THEN "Error" ELSE None]

\* C10: when the invocation of a selected handler throws, the route call still
\* returns one result per selected handler; every selected handler was invoked,
\* the thrower's result is {success: false, error} and every other result is
\* that handler's own
C10_FailureIsolated ==
    (RouteReturned /\ \E i \in DOMAIN outcomes :
            outcomes[i] = "throws" /\ invoked[i] = routingDecision.agents[i]) =>
        /\ response.success
        /\ invoked = routingDecision.agents
        /\ Len(response.results) = Len(routingDecision.agents)
        /\ \A i \in 1..Len(routingDecision.agents) :
            response.results[i] = ResultFor(routingDecision.agents[i], outcomes[i])

\* three handlers selected, the second threw, the other two returned
C10_Witness ==
    /\ RouteReturned
    /\ Len(routingDecision.agents) = 3
    /\ DOMAIN outcomes = 1..3
    /\ outcomes[1] = "returns" /\ outcomes[2] = "throws" /\ outcomes[3] = "returns"
    /\ Len(response.results) = 3
    /\ ~response.results[2].success
    /\ response.results[1].success /\ response.results[3].success

----------------------------------------------------------------------------
(* Properties of the SLA sweep and the escalation data (SpecSLA) *)

\* row t is open, older than the SLA of its priority and not yet escalated
SLADue(t, now) ==
    /\ t.status = "open"
    /\ now - t.created_at > slaHours(t.priority)
    /\ t.escalation_level = 0

\* C3: of two monitorSLA runs in immediate succession (no time elapsed, no
\* other operation between them) the first raises escalation_level by exactly 1
\* on each open ticket that violates its SLA and is due for escalation (level
\* 0) and by 0 on every other open ticket, and the second changes no ticket
\* and reports 0 escalations: in total each violating ticket is raised by 1
C3_SweepIdempotent ==
    [][lastOp' = "monitorSLA" =>
        IF sweepRun >= 1
        THEN tickets' = tickets /\ lastEscalated' = 0
        ELSE \A id \in DOMAIN tickets :
                tickets[id].status = "open" =>
                    tickets'[id].escalation_level =
                        tickets[id].escalation_level
                            + (IF SLADue(tickets[id], clock) THEN 1 ELSE 0)]_vars

\* two runs in succession, after which a ticket escalated by the first is at level 1
C3_Witness ==
    /\ sweepRun = 2
    /\ lastOp = "monitorSLA"
    /\ lastEscalated = 0
    /\ \E id \in DOMAIN tickets :
        /\ tickets[id].status = "open"
        /\ tickets[id].escalation_level = 1
        /\ tickets[id].escalated_at = clock

C5_LevelNeverDecreases ==
    [][\A id \in DOMAIN tickets :
        /\ tickets'[id].escalation_level >= tickets[id].escalation_level
        /\ lastOp' \in {"monitorSLA", "slaMonitor"} =>
            tickets'[id].escalation_level <= tickets[id].escalation_level + 1]_vars

----------------------------------------------------------------------------
(* Properties of the automated approval paths (SpecAccess) *)

\* the resource name contains an entry of the high-risk list
HighRiskListed(resource) == \E h \in highRiskList : Includes(LowerText(resource), h)

\* the resource name is, whatever its case, an entry of the scan's low-risk list
LowRiskListed(resource) == \E e \in lowRiskResources : LowerText(resource) = LowerText(e)

\* C6: a request is approved by an automated path only if its resource is
\* assessed as low risk and its justification holds a routine-use marker term
C6_ApprovedOnlyIfLowRiskAndRoutine ==
    \A i \in DOMAIN accessRequests :
        accessRequests[i].status = "approved" =>
            /\ assessAccessRisk(accessRequests[i].resource_name) = "low"
            /\ safeWords(accessRequests[i].justification)

\* C7: a request whose resource name matches an entry of the high-risk list is
\* never auto-approved: it is pending, in the table and in the decision of
\* POST /api/access/auto-approve
C7_HighRiskNeverApproved ==
    /\ \A i \in DOMAIN accessRequests :
        HighRiskListed(accessRequests[i].resource_name) =>
            accessRequests[i].status = "pending"
    /\ (autoApproval.status # None /\ HighRiskListed(autoApproval.resource)) =>
            (autoApproval.status = "pending" /\ ~autoApproval.auto_approved)

\* C8: after an auto-approval scan no request is left pending whose resource is
\* a listed low-risk resource and whose justification contains "routine"
C8_EligibleApprovedByScan ==
    lastAccessOp = "scan" =>
        \A i \in DOMAIN accessRequests :
            ~ /\ accessRequests[i].status = "pending"
              /\ LowRiskListed(accessRequests[i].resource_name)
              /\ Includes(LowerText(accessRequests[i].justification), "routine")

----------------------------------------------------------------------------
(* The overall result of a route call (SpecRouter) *)

\* C11: a returned route call reports failure (success = false) exactly when
\* every handler it invoked failed; with one successful handler it reports
\* success
C11_FailureIffEveryHandlerFailed ==
    RouteReturned =>
        (~response.success <=> \A i \in DOMAIN outcomes : outcomes[i] = "throws")

\* C12: no handler hangs a route call: whenever a call is in flight, a step
\* that brings it nearer to its return is possible (a handler settles, or the
\* wait for a handler that never settles is ended and a failed result recorded)
C12_CallNeverBlocked ==
    pc # "idle" => ENABLED (SingleSettles \/ PrimarySettles \/ SecondarySettles)

----------------------------------------------------------------------------
(* Properties of calculateConfidence (SpecConfidence) *)

\* C13, as stated: for every text and context the escalation handler's
\* confidence under priority "high" is strictly greater than under "medium"
C13_HighStrictlyAboveMedium ==
    (pc = "scored" /\ AgentName(handler) = "EscalationAgent") =>
        scores.high > scores.medium

\* C13, amended: the escalation handler's confidence under priority "high" is
\* never below its confidence under "medium", and is strictly greater whenever
\* the confidence under "medium" is below the cap 1.0
C13_HighAboveMediumBelowCap ==
    (pc = "scored" /\ AgentName(handler) = "EscalationAgent") =>
        /\ scores.high >= scores.medium
        /\ scores.medium < 1000 => scores.high > scores.medium

\* three escalation keywords: 0.984 under "medium", capped to 1.0 under "high"
C13_Witness ==
    /\ pc = "scored"
    /\ AgentName(handler) = "EscalationAgent"
    /\ countKeywordMatches(handler, input) = 3
    /\ scores.medium = 984
    /\ scores.high = 1000

----------------------------------------------------------------------------
(* Properties of the confidence values (SpecIntent, SpecConfidence) *)

\* a detect call has returned
Detected == lastOp = "detect"

\* the exact score of intent i for the message
ScoreOf(i) == intentScore(message, intents[i])

\* C15: detect returns the intent of maximum score, the first defined one
\* among those of maximum score; when no intent scores above 0 it returns
\* "unknown" with confidence 0
C15_MaximumScoreFirstDefined ==
    Detected =>
        IF \A i \in DOMAIN intents : ScoreOf(i) = 0
        THEN detected = unknownIntent
        ELSE \E i \in DOMAIN intents :
                /\ detected = [intent |-> intents[i].name, confidence |-> ScoreOf(i)]
                /\ \A j \in DOMAIN intents : ScoreOf(j) <= ScoreOf(i)
                /\ \A j \in 1..(i - 1) : ScoreOf(j) < ScoreOf(i)

\* "fix error status": ticket_creation (2 of 8 keywords) and status_check (1 of
\* 4) both score 0.07, the maximum; the one defined first is returned
C15_Witness ==
    /\ Detected
    /\ ScoreOf(2) = ScoreOf(7)
    /\ ScoreOf(2) > 0
    /\ \A j \in DOMAIN intents : ScoreOf(j) <= ScoreOf(2)
    /\ detected.intent = "ticket_creation"

\* C14: every confidence value is between 0 and 1: what calculateConfidence
\* returns (thousandths) and the confidence of what detect returns (in units
\* of 1/FullScore)
C14_ConfidencesWithinUnitInterval ==
    /\ pc = "scored" => \A p \in DOMAIN scores : scores[p] \in 0..1000
    /\ Detected => detected.confidence \in 0..FullScore

\* the sum of the terms of calculateConfidence exceeds 1 and is capped, and
\* detect has found an intent
C14_Witness ==
    /\ pc = "scored"
    /\ 500 + countKeywordMatches(handler, input) * 100
           + (getHistoricalSuccess(AgentName(handler)) * 200) \div 1000 > 1000
    /\ scores.own = 1000
    /\ Detected
    /\ detected.confidence > 0

----------------------------------------------------------------------------
(* Properties of the routing log (SpecLog) *)

\* the calls whose entries the log holds, in the order of the log
LoggedCalls == [k \in 1..Len(routingHistory) |-> routingHistory[k].timestamp]

\* the last n elements of a sequence
LastOf(s, n) == SubSeq(s, Len(s) - n + 1, Len(s))

\* C16: under any interleaving of route calls the routing log holds at most
\* 100 entries, which are the entries of the most recent completed calls in
\* completion order (so that appending to a full log evicts the oldest entry
\* and no other)
C16_LogHoldsMostRecentCompleted ==
    /\ Len(routingHistory) <= HistoryCapacity
    /\ LoggedCalls = LastOf(completed, Min(Len(completed), HistoryCapacity))

\* more than 100 calls have completed, the last two in the opposite order of
\* their start, while another call is still in flight
C16_Witness ==
    /\ Len(completed) > HistoryCapacity
    /\ Len(routingHistory) = HistoryCapacity
    /\ completed[Len(completed)] < completed[Len(completed) - 1]
    /\ inflight # {}

----------------------------------------------------------------------------
(* Properties of the historical success term (SpecRouter) *)

\* the results of the named handler that the routing log holds, by position
LoggedResults(name) ==
    {p \in {<<k, j>> : k \in DOMAIN routingHistory, j \in 1..MaxAgentsLimit} :
        /\ p[2] \in DOMAIN routingHistory[p[1]].results
        /\ routingHistory[p[1]].results[p[2]].agent = name}

\* the fraction of the handler's logged results that succeeded, in thousandths
LoggedSuccessRate(name) ==
    LET logged == LoggedResults(name)
        succeeded == {p \in logged : routingHistory[p[1]].results[p[2]].success}
    IN  (1000 * Cardinality(succeeded)) \div Cardinality(logged)

\* C17: the historical success term of a handler is derived from its logged
\* results (their success rate), and is the neutral prior 0.8 only when the
\* log holds no result of the handler
C17_HistoricalSuccessFromLog ==
    \A h \in Handlers :
        LET name == AgentName(h)
        IN  /\ getHistoricalSuccess(name) = 800 => LoggedResults(name) = {}
            /\ LoggedResults(name) # {} =>
                    getHistoricalSuccess(name) = LoggedSuccessRate(name)

----------------------------------------------------------------------------
(* Properties of the sweep over tickets that are not open (SpecSLA) *)

\* C18: a sweep mutates open tickets only: a ticket whose status is not "open"
\* keeps its status, priority, escalation_level and escalated_at
C18_SweepLeavesNonOpenTickets ==
    [][lastOp' = "monitorSLA" =>
        \A id \in TicketIds :
            tickets[id].status # "open" =>
                /\ tickets'[id].status = tickets[id].status
                /\ tickets'[id].priority = tickets[id].priority
                /\ tickets'[id].escalation_level = tickets[id].escalation_level
                /\ tickets'[id].escalated_at = tickets[id].escalated_at]_vars

----------------------------------------------------------------------------
(* Properties of the sweep over malformed tickets (SpecMalformed) *)

\* C19: a sweep skips a malformed ticket (created_at missing or unparseable)
\* and leaves it unchanged
C19_SweepSkipsMalformedTickets ==
    [][lastOp' = "monitorSLA" =>
        \A id \in TicketIds :
            tickets[id].created_at \in {NULL, InvalidDate} =>
                tickets'[id] = tickets[id]]_vars

----------------------------------------------------------------------------
(* Properties of concurrently triggered sweeps (SpecSweeps) *)

\* the rows the executing sweep has still to examine are as it read them: no
\* other sweep has written between its read and its write
NoInterleavedWrite ==
    Sweeping =>
        \A id \in TicketIds : id >= sweeping.next => tickets[id] = sweeping.rows[id]

\* no ticket has been escalated by the sweeps more than once
NoDoubleEscalation == \A id \in TicketIds : escalations[id] <= 1

----------------------------------------------------------------------------
(* Properties of the multi-agent execution (SpecRouter) *)

\* the call runs, or ran, executeMultiAgent on more than one agent
MultiAgentExecution ==
    /\ Len(routingDecision.agents) > 1
    /\ config.enableMultiAgent
    /\ calls > 0

\* C21: in a multi-agent execution no secondary handler is invoked before the
\* primary has completed, every secondary is invoked with the context enriched
\* by the primary's result and multiAgentExecution = true, and the call
\* returns only after every secondary has completed
C21_SecondariesAfterPrimaryEnriched ==
    MultiAgentExecution =>
        /\ pc = "primary" => Len(invoked) = 1 /\ invoked[1] = routingDecision.agents[1]
        /\ \A i \in DOMAIN invoked :
            i > 1 =>
                /\ 1 \in DOMAIN outcomes
                /\ primaryResult = execute(invoked[1], outcomes[1]).value
                /\ enriched[i] = [context |-> context,
                                  primaryAgentResult |-> primaryResult,
                                  multiAgentExecution |-> TRUE]
        /\ enriched[1] = [context |-> context, primaryAgentResult |-> NoResult,
                          multiAgentExecution |-> FALSE]
        /\ pc = "idle" =>
            /\ invoked = routingDecision.agents
            /\ pending = {}
            /\ DOMAIN outcomes = DOMAIN invoked
            /\ DOMAIN settled = 2..Len(invoked)

\* three handlers: the primary threw, both secondaries were then invoked with
\* its failed result in their context, one has completed and the call has
\* not returned
C21_Witness ==
    /\ MultiAgentExecution
    /\ pc = "secondary"
    /\ Len(invoked) = 3
    /\ outcomes[1] = "throws"
    /\ ~enriched[3].primaryAgentResult.success
    /\ enriched[2].multiAgentExecution
    /\ pending = {2}

----------------------------------------------------------------------------
(* Properties of the stored priorities and the SLA thresholds (SpecSLA) *)

Priorities == {"low", "medium", "high", "urgent"}

\* C22: every ticket's priority is one of low, medium, high, urgent
C22_PriorityInDomain ==
    \A id \in DOMAIN tickets : tickets[id].priority \in Priorities

\* the documented SLA thresholds, in hours
documentedSLA(priority) ==
    CASE priority = "urgent" -> 4
      [] priority = "high" -> 24
      [] priority = "medium" -> 48
      [] priority = "low" -> 72

\* C23: both the periodic sweep and GET /api/sla/monitor escalate a ticket
\* that is open and not yet escalated exactly when its age exceeds the
\* documented threshold of its priority (urgent 4, high 24, medium 48, low 72)
C23_DocumentedThresholds ==
    [][lastOp' \in {"monitorSLA", "slaMonitor"} =>
        \A id \in TicketIds :
            LET t == tickets[id]
            IN  (/\ t.status = "open"
                 /\ t.priority \in Priorities
                 /\ t.escalation_level = 0
                 /\ t.escalated_at = NULL) =>
                    (tickets'[id] # t <=> clock - t.created_at > documentedSLA(t.priority))]_vars

\* C24: GET /api/sla/monitor escalates a violating ticket only if it has not
\* been escalated yet: an already escalated ticket keeps its escalation_level
C24_MonitorEndpointEscalatesOnce ==
    [][lastOp' = "slaMonitor" =>
        \A id \in TicketIds :
            (tickets[id].escalated_at # NULL /\ tickets[id].escalation_level >= 1) =>
                tickets'[id].escalation_level = tickets[id].escalation_level]_vars

----------------------------------------------------------------------------
(* Properties of classifyTicket (SpecClassify) *)

\* a classifyTicket call has returned
Classified == classification # NoClassification

\* the keyword sets in their documented order, with their categories
CategoryOrder == << [name |-> "hardware", keywords |-> hardwareKeywords],
                    [name |-> "network", keywords |-> networkKeywords],
                    [name |-> "access", keywords |-> accessKeywords],
                    [name |-> "software", keywords |-> softwareKeywords] >>

\* the sets of which the text holds a keyword, by position in the order
MatchingSets == {k \in DOMAIN CategoryOrder : Test(CategoryOrder[k].keywords, ticketText)}

\* C25: the category is that of the first keyword set, in the order hardware,
\* network, access, software, of which the text holds a keyword, and
\* "general" when it holds none
C25_FirstMatchingCategory ==
    Classified =>
        IF MatchingSets = {}
        THEN classification.category = "general"
        ELSE \E k \in MatchingSets :
                /\ \A j \in MatchingSets : k <= j
                /\ classification.category = CategoryOrder[k].name

\* the text holds keywords of the hardware, network and software sets
C25_Witness ==
    /\ Classified
    /\ MatchingSets = {1, 2, 4}
    /\ classification.category = "hardware"

----------------------------------------------------------------------------
(* Properties of SimpleCache (SpecCache) *)

CachedKeys(map) == {map[i].key : i \in DOMAIN map}

\* C26: when set inserts a new key into a full cache, the entry evicted is
\* the least recently used one, a get and a set of a key both being a use
C26_EvictsLeastRecentlyUsed ==
    [][(Len(cacheMap) = MaxEntries /\ CachedKeys(cacheMap') # CachedKeys(cacheMap)) =>
        CachedKeys(cacheMap) \ CachedKeys(cacheMap') = {recency[1]}]_vars

----------------------------------------------------------------------------
(* Properties of callModel (SpecModel) *)

\* C27: for invocations of callModel with the same prompt and options, the
\* external model is called at most once while the entry stays in the cache
\* (no entry is evicted here), also when an invocation starts before an
\* earlier one has completed: apart from failed requests, which cache
\* nothing, at most one request per cache key is sent
C27_ModelCalledOncePerKey ==
    \A key \in DOMAIN apiCalls : apiCalls[key] - failedCalls[key] <= 1

----------------------------------------------------------------------------
(* Properties of the notifications of the SLA timer (SpecNotify) *)

\* C28: after a periodic sweep that escalated k >= 1 tickets, notifications
\* are sent for exactly the tickets this sweep escalated, once each
C28_NotifiesTicketsOfThisSweep ==
    [][(lastOp' = "monitorSLA" /\ lastEscalated' >= 1) =>
        /\ {notified'[i] : i \in DOMAIN notified'} =
                {id \in TicketIds : tickets'[id] # tickets[id]}
        /\ Len(notified') = lastEscalated']_vars

----------------------------------------------------------------------------
(* Properties of the executed handlers and the returned decision (SpecRouter) *)

\* C29: for every route call and configuration, the handlers executed are
\* exactly the handlers of the returned routing decision, in the same order:
\* agentsUsed names routing.agents and the fallback runs only when selected
C29_ExecutedAreSelected ==
    (RouteReturned /\ response.success) =>
        /\ invoked = response.routing
        /\ response.agentsUsed =
                [i \in DOMAIN response.routing |-> AgentName(response.routing[i])]

----------------------------------------------------------------------------
(* Properties of the admin-only endpoints (SpecAuth) *)

\* C30: in every session state reached through signup, login and logout, an
\* admin-only endpoint grants access exactly when the logged-in user's role
\* is admin, and answers every other logged-in user with 403
C30_AdminEndpointsGrantAdminsOnly ==
    (adminReply.http # 0 /\ requireAuth(session)) =>
        adminReply.http = IF users[session.userId] = "admin" THEN 200 ELSE 403

====
